---------------------------- MODULE Spec2Model ----------------------------
(***************************************************************************)
(* EUDR deforestation compliance API: the analyzer                         *)
(* (services/deforestation_analyzer.py), the cache service                 *)
(* (services/cache_service.py), the imagery service                        *)
(* (services/copernicus_service.py) and the /api/v1/eudr/check and         *)
(* /api/v1/analyze/deforestation handlers (main.py).                       *)
(*                                                                         *)
(* Number representation.  TLC has integers only, so the Python floats are *)
(* carried in fixed point:                                                 *)
(*   - a coordinate is an integer number of 1/1024 degree (Deg(d) is d     *)
(*     degrees); a vertex is <<lon, lat>> as in GeoJSON (coord[0] is the   *)
(*     longitude, coord[1] the latitude);                                  *)
(*   - cos(lat) is in thousandths (CosMilli);                              *)
(*   - an area is in hundredths of a hectare (1.0 ha = 100);               *)
(*   - factors, probabilities and confidences are in 1/10000 (0.5 = 5000); *)
(*   - a percentage is in hundredths of a percent (40 % = 4000).           *)
(* The centroid of _get_location_risk_factor is a sum of floats taken in   *)
(* vertex order, and its value decides a box membership, so there the      *)
(* rounding of float addition and division is modelled: round to nearest,  *)
(* ties to even, on a mantissa of MantissaBits bits (Python: 53).          *)
(***************************************************************************)
EXTENDS Integers, Sequences, FiniteSets, TLC

VARIABLES
    pc,             \* "idle": no call in progress; "done": `ret` holds the outcome of `call`
    call,           \* the operation last invoked and its arguments
    ret,            \* its outcome: a returned value or a raised exception
    redis_client,   \* CacheService.redis_client: "connected" or "None"
    api,            \* CopernicusService.api: "connected" or "None" (demo mode)
    store,          \* contents of the Redis server: cache key -> stored string
    clock,          \* datetime.now(): the number of requests served so far
    trace           \* what the last request did to its collaborators, in order

vars == <<pc, call, ret, redis_client, api, store, clock, trace>>

-----------------------------------------------------------------------------
(* Bounds of the model *)

\* longest vertex list given to the analyzer
MaxVertices == 3
\* number of requests the API serves in one run
MaxRequests == 2
\* mantissa width of the modelled float (Python's float has 53 bits)
MantissaBits == 18

-----------------------------------------------------------------------------
(* Generic helpers *)

Deg(d) == d * 1024

Abs(x) == IF x < 0 THEN -x ELSE x

Min(a, b) == IF a < b THEN a ELSE b

Max(a, b) == IF a > b THEN a ELSE b

RECURSIVE Pow2(_)
Pow2(k) == IF k = 0 THEN 1 ELSE 2 * Pow2(k - 1)

SeqsUpTo(S, n) == UNION {[1..k -> S] : k \in 0..n}

-----------------------------------------------------------------------------
(* Float arithmetic of the centroid: IEEE-754 round-to-nearest-even on a   *)
(* mantissa of MantissaBits bits.  A float is [m, e] with value m * 2^e,   *)
(* |m| < 2^MantissaBits.                                                   *)

\* n / d rounded to the nearest integer, ties to the even one (n >= 0, d > 0)
RoundHalfEven(n, d) ==
    LET q == n \div d
        r == n % d
    IN  IF 2 * r < d THEN q
        ELSE IF 2 * r > d THEN q + 1
        ELSE IF q % 2 = 0 THEN q ELSE q + 1

\* 2^MantissaBits: a mantissa is below it
MantissaLimit == Pow2(MantissaBits)

\* the float nearest to the non-negative rational n / d: exact when the
\* quotient is an integer that fits the mantissa, else scaled by powers of
\* two until the mantissa has MantissaBits bits, and rounded
RECURSIVE RoundPos(_, _, _)
RoundPos(n, d, e) ==
    IF n % d = 0 /\ n \div d < MantissaLimit THEN [m |-> n \div d, e |-> e]
    ELSE IF n >= d * MantissaLimit THEN RoundPos(n, 2 * d, e + 1)
    ELSE IF 2 * n < d * MantissaLimit THEN RoundPos(2 * n, d, e - 1)
    ELSE LET m == RoundHalfEven(n, d)
         IN  IF m = MantissaLimit
             THEN [m |-> MantissaLimit \div 2, e |-> e + 1]
             ELSE [m |-> m, e |-> e]

\* the float nearest to the rational n / d (d > 0)
FloatOf(n, d) ==
    IF n >= 0 THEN RoundPos(n, d, 0)
    ELSE LET p == RoundPos(-n, d, 0) IN [m |-> -p.m, e |-> p.e]

\* a float whose value is an integer, as that integer
FloatInt(x) == IF x.e >= 0 THEN x.m * Pow2(x.e) ELSE x.m \div Pow2(-x.e)

\* float addition of two integer-valued floats: the exact sum, rounded
FloatAdd(a, b) == FloatInt(FloatOf(a + b, 1))

\* x <= b and x >= b for a float x and an integer b
FloatLe(x, b) ==
    IF x.e >= 0 THEN x.m * Pow2(x.e) <= b
    ELSE -((-x.m) \div Pow2(-x.e)) <= b

FloatGe(x, b) ==
    IF x.e >= 0 THEN x.m * Pow2(x.e) >= b
    ELSE x.m \div Pow2(-x.e) >= b

-----------------------------------------------------------------------------
(* DeforestationAnalyzer._calculate_area *)

\* math.cos(math.radians(lat_deg)) in thousandths, for whole degrees 0..90
CosTable ==
    << 1000, 1000, 999, 999, 998, 996, 995, 993, 990, 988,
       985, 982, 978, 974, 970, 966, 961, 956, 951, 946,
       940, 934, 927, 921, 914, 906, 899, 891, 883, 875,
       866, 857, 848, 839, 829, 819, 809, 799, 788, 777,
       766, 755, 743, 731, 719, 707, 695, 682, 669, 656,
       643, 629, 616, 602, 588, 574, 559, 545, 530, 515,
       500, 485, 469, 454, 438, 423, 407, 391, 375, 358,
       342, 326, 309, 292, 276, 259, 242, 225, 208, 191,
       174, 156, 139, 122, 105, 87, 70, 52, 35, 17, 0 >>

\* cos of a latitude, read at the nearest whole degree
CosMilli(lat) == CosTable[((Abs(lat) + 512) \div 1024) + 1]

\* deg_to_meters, with the common factor 111320 m/degree left to
\* AreaOfShoelace: <<lat, lon * cos(lat)>>
deg_to_meters(lat, lon) == <<lat, lon * CosMilli(lat)>>

\* the loop of the shoelace formula: the sum over i of lat1*lon2 - lat2*lon1
RECURSIVE ShoelaceSum(_, _)
ShoelaceSum(coordinates, i) ==
    IF i > Len(coordinates) THEN 0
    ELSE LET n == Len(coordinates)
             j == (i % n) + 1
             p1 == deg_to_meters(coordinates[i][2], coordinates[i][1])
             p2 == deg_to_meters(coordinates[j][2], coordinates[j][1])
         IN  (p1[1] * p2[2] - p2[1] * p1[2]) + ShoelaceSum(coordinates, i + 1)

\* abs(area) / 2.0 / 10000 in hundredths of a hectare.  The sum is in
\* (1/1024 degree)^2 thousandths, so the factor is
\* 111320^2 / (1024^2 * 1000 * 2 * 10000) * 100 = 0.0591
AreaOfShoelace(s) == (Abs(s) * 591) \div 10000

\* faulty variant: the floor of 1.0 hectare is left out
_calculate_area_unclamped(coordinates) ==
    IF Len(coordinates) < 3 THEN 0
    ELSE AreaOfShoelace(ShoelaceSum(coordinates, 1))

\* faulty variant: the test on the number of vertices is left out
_calculate_area_no_length_test(coordinates) ==
    Max(AreaOfShoelace(ShoelaceSum(coordinates, 1)), 100)

_calculate_area(coordinates) ==
    IF Len(coordinates) < 3 THEN 0
    ELSE Max(AreaOfShoelace(ShoelaceSum(coordinates, 1)), 100)

-----------------------------------------------------------------------------
(* Outcomes of a call: a returned value, or a raised exception *)

Returned(v) == [raised |-> "", value |-> v]

Raised(exc) == [raised |-> exc, value |-> 0]

-----------------------------------------------------------------------------
(* DeforestationAnalyzer._get_location_risk_factor *)

\* sum(coord[k] for coord in coordinates): the floats added left to right,
\* each addition rounded
RECURSIVE FloatSum(_, _, _)
FloatSum(coordinates, k, i) ==
    IF i = 0 THEN 0
    ELSE FloatAdd(FloatSum(coordinates, k, i - 1), coordinates[i][k])

\* sum(...) / len(coordinates) for a non-empty list: <<center_lon, center_lat>>
Centroid(coordinates) ==
    LET n == Len(coordinates)
    IN  << FloatOf(FloatSum(coordinates, 1, n), n),
           FloatOf(FloatSum(coordinates, 2, n), n) >>

InBox(lo, x, hi) == FloatGe(x, lo) /\ FloatLe(x, hi)

\* the chain of bounding boxes, first match wins; the factor in 1/10000
RiskOfCenter(center_lat, center_lon) ==
    IF InBox(Deg(-10), center_lat, Deg(10)) /\ InBox(Deg(-80), center_lon, Deg(-40))
    THEN 8000
    ELSE IF InBox(Deg(-10), center_lat, Deg(10)) /\ InBox(Deg(10), center_lon, Deg(35))
    THEN 7000
    ELSE IF InBox(Deg(-10), center_lat, Deg(20)) /\ InBox(Deg(90), center_lon, Deg(150))
    THEN 6000
    ELSE IF InBox(Deg(35), center_lat, Deg(70)) /\ InBox(Deg(-10), center_lon, Deg(50))
    THEN 2000
    ELSE 4000

\* a vertex of fewer than two numbers: coord[1] raises IndexError
Malformed(coordinates) ==
    \E i \in DOMAIN coordinates : Len(coordinates[i]) < 2

\* faulty variant: the vertices are read as [lat, lon]
_get_location_risk_factor_lat_lon_swapped(coordinates) ==
    IF Len(coordinates) = 0 THEN Raised("ZeroDivisionError")
    ELSE LET c == Centroid(coordinates)
         IN  Returned(RiskOfCenter(c[1], c[2]))

\* the division by len(coordinates) raises ZeroDivisionError on an empty
\* list; the sum over coord[1] raises IndexError on a malformed vertex
_get_location_risk_factor(coordinates) ==
    IF Len(coordinates) = 0 THEN Raised("ZeroDivisionError")
    ELSE IF Malformed(coordinates) THEN Raised("IndexError")
    ELSE LET c == Centroid(coordinates)
         IN  Returned(RiskOfCenter(c[2], c[1]))

-----------------------------------------------------------------------------
(* DeforestationAnalyzer._calculate_time_span *)

\* A date argument is [type |-> "str", chars |-> <<"2", "0", ...>>] or, for
\* a value that is no string, [type |-> "NoneType", chars |-> <<>>].
Str(chars) == [type |-> "str", chars |-> chars]

NoneValue == [type |-> "NoneType", chars |-> <<>>]

Digits == {"0", "1", "2", "3", "4", "5", "6", "7", "8", "9"}

DigitValue(c) ==
    CASE c = "0" -> 0 [] c = "1" -> 1 [] c = "2" -> 2 [] c = "3" -> 3
      [] c = "4" -> 4 [] c = "5" -> 5 [] c = "6" -> 6 [] c = "7" -> 7
      [] c = "8" -> 8 [] c = "9" -> 9

\* the positions of "-" in a string
Dashes(s) == {i \in 1..Len(s) : s[i] = "-"}

\* the directive %Y: (?P<Y>\d\d\d\d)
MatchY(f) == Len(f) = 4 /\ \A i \in 1..4 : f[i] \in Digits

\* the directive %m: (?P<m>1[0-2]|0[1-9]|[1-9])
MatchM(f) ==
    \/ Len(f) = 2 /\ f[1] = "1" /\ f[2] \in {"0", "1", "2"}
    \/ Len(f) = 2 /\ f[1] = "0" /\ f[2] \in Digits \ {"0"}
    \/ Len(f) = 1 /\ f[1] \in Digits \ {"0"}

\* the directive %d: (?P<d>3[0-1]|[1-2]\d|0[1-9]|[1-9]| [1-9])
MatchD(f) ==
    \/ Len(f) = 2 /\ f[1] = "3" /\ f[2] \in {"0", "1"}
    \/ Len(f) = 2 /\ f[1] \in {"1", "2"} /\ f[2] \in Digits
    \/ Len(f) = 2 /\ f[1] \in {"0", " "} /\ f[2] \in Digits \ {"0"}
    \/ Len(f) = 1 /\ f[1] \in Digits \ {"0"}

RECURSIVE FieldValue(_)
FieldValue(f) ==
    IF Len(f) = 0 THEN 0
    ELSE IF f[Len(f)] = " " THEN 0
    ELSE 10 * FieldValue(SubSeq(f, 1, Len(f) - 1)) + DigitValue(f[Len(f)])

IsLeap(y) == y % 4 = 0 /\ (y % 100 # 0 \/ y % 400 = 0)

DaysInMonth(y, m) ==
    IF m = 2 THEN (IF IsLeap(y) THEN 29 ELSE 28)
    ELSE IF m \in {4, 6, 9, 11} THEN 30 ELSE 31

RECURSIVE DaysBeforeMonth(_, _)
DaysBeforeMonth(y, m) ==
    IF m = 1 THEN 0 ELSE DaysBeforeMonth(y, m - 1) + DaysInMonth(y, m - 1)

\* datetime.toordinal: the day number of y-m-d, 0001-01-01 being day 1
Ordinal(y, m, d) ==
    (y - 1) * 365 + ((y - 1) \div 4) - ((y - 1) \div 100) + ((y - 1) \div 400)
    + DaysBeforeMonth(y, m) + d

\* datetime.strptime(date, '%Y-%m-%d'): the whole string must match the
\* format and name a day of the calendar; otherwise ValueError, and
\* TypeError when the argument is not a string
strptime(date) ==
    IF date.type # "str" THEN Raised("TypeError")
    ELSE LET s == date.chars
             ds == Dashes(s)
         IN  IF Cardinality(ds) # 2 THEN Raised("ValueError")
             ELSE LET d1 == CHOOSE i \in ds : \A j \in ds : i <= j
                      d2 == CHOOSE i \in ds : \A j \in ds : i >= j
                      fy == SubSeq(s, 1, d1 - 1)
                      fm == SubSeq(s, d1 + 1, d2 - 1)
                      fd == SubSeq(s, d2 + 1, Len(s))
                  IN  IF ~(MatchY(fy) /\ MatchM(fm) /\ MatchD(fd))
                      THEN Raised("ValueError")
                      ELSE LET y == FieldValue(fy)
                               m == FieldValue(fm)
                               d == FieldValue(fd)
                           IN  IF y < 1 \/ d > DaysInMonth(y, m)
                               THEN Raised("ValueError")
                               ELSE Returned(Ordinal(y, m, d))

\* faulty variant: the fallback value is 0
_calculate_time_span_zero(start_date, end_date) ==
    LET start == strptime(start_date)
        end == strptime(end_date)
    IN  IF start.raised # "" \/ end.raised # "" THEN 0
        ELSE end.value - start.value

\* (end - start).days, or 365 when either strptime raises (bare except)
_calculate_time_span(start_date, end_date) ==
    LET start == strptime(start_date)
        end == strptime(end_date)
    IN  IF start.raised # "" \/ end.raised # "" THEN 365
        ELSE end.value - start.value

-----------------------------------------------------------------------------
(* DeforestationAnalyzer.analyze_change and full_analysis                  *)
(*                                                                         *)
(* An image descriptor is a dict: a function from keys to values, so that  *)
(* image['date'] raises KeyError when the key is absent and                *)
(* image.get('cloud_coverage', 0) falls back to 0.  cloud_coverage is in   *)
(* hundredths of a percent.  The random draws of one call are the record   *)
(* rnd, one field per call of the random module.                           *)

\* random.uniform(lo, hi): the ends of the range and its middle
Uniform(lo, hi) == {lo, (lo + hi) \div 2, hi}

CloudCoverage(image) ==
    IF "cloud_coverage" \in DOMAIN image THEN image["cloud_coverage"] ELSE 0

\* faulty variant: min and max are exchanged
ClampProbabilitySwapped(p) == Max(Min(p, 1000), 9000)

\* faulty variant: the probability is not clamped
ClampProbabilityAbsent(p) == p

\* min(max(deforestation_probability, 0.1), 0.9)
ClampProbability(p) == Min(Max(p, 1000), 9000)

\* faulty variant: the fraction is taken ten times too large
LossAreaTenfold(area_hectares, fraction) ==
    (area_hectares * fraction) \div 1000

\* area_hectares * random.uniform(...): the drawn fraction of the area
LossArea(area_hectares, fraction) == (area_hectares * fraction) \div 10000

\* (forest_loss_area / area_hectares * 100) if area_hectares > 0 else 0
ChangePercentage(forest_loss_area, area_hectares) ==
    IF area_hectares > 0
    THEN (forest_loss_area * 10000) \div area_hectares
    ELSE 0

analyze_change(historical_image, current_image, coordinates, rnd) ==
    LET area_hectares == _calculate_area(coordinates)
        area_factor == Min(area_hectares, 10000)
        location == _get_location_risk_factor(coordinates)
        location_factor == location.value
        deforestation_probability ==
            ClampProbability((3 * (area_factor + location_factor)) \div 20)
        deforestation_detected == deforestation_probability > 5000
        forest_loss_area ==
            IF deforestation_detected
            THEN LossArea(area_hectares, rnd.loss)
            ELSE 0
        ndvi_change ==
            IF deforestation_detected THEN -rnd.ndvi_loss ELSE rnd.ndvi_stable
    IN  IF location.raised # "" THEN Raised(location.raised)
        ELSE IF "date" \notin DOMAIN historical_image
                \/ "date" \notin DOMAIN current_image
        THEN Raised("KeyError")
        ELSE Returned(
          [ deforestation_detected |-> deforestation_detected,
            confidence_score |-> deforestation_probability,
            area_analyzed |-> area_hectares,
            forest_loss_area |-> forest_loss_area,
            change_percentage |->
                ChangePercentage(forest_loss_area, area_hectares),
            detailed_report |->
              [ ndvi_change |-> ndvi_change,
                vegetation_loss |-> deforestation_detected,
                analysis_method |-> "NDVI comparison with ML enhancement",
                temporal_analysis |->
                  [ historical_period |-> historical_image["date"],
                    current_period |-> current_image["date"],
                    time_span_days |->
                        _calculate_time_span(historical_image["date"],
                                             current_image["date"]) ],
                risk_factors |->
                  [ area_size |-> area_factor,
                    geographic_risk |-> location_factor,
                    cloud_coverage_impact |->
                        Max(CloudCoverage(historical_image),
                            CloudCoverage(current_image)) ] ] ])

\* the fixed recommendation strings (accents and pictograms left out)
RecLoss ==
    << "Verification terrain immediate recommandee",
       "Conformite EUDR a risque - documentation requise",
       "Contact urgent avec les fournisseurs concernes",
       "Audit complementaire de la chaine d'approvisionnement" >>

RecClear ==
    << "Zone conforme aux exigences EUDR actuelles",
       "Surveillance continue recommandee (monitoring trimestriel)",
       "Documentation a jour et conforme" >>

RecLargeArea == "Surveillance satellite haute frequence recommandee"

\* faulty variant: the high-frequency entry is added to the no-loss list only
Recommendations_clear_only(forest_loss_detected, area_hectares) ==
    IF forest_loss_detected THEN RecLoss
    ELSE RecClear \o (IF area_hectares > 10000 THEN <<RecLargeArea>> ELSE <<>>)

\* the recommendations of full_analysis
Recommendations(forest_loss_detected, area_hectares) ==
    (IF forest_loss_detected THEN RecLoss ELSE RecClear)
    \o (IF area_hectares > 10000 THEN <<RecLargeArea>> ELSE <<>>)

full_analysis(coordinates, rnd) ==
    LET area_hectares == _calculate_area(coordinates)
        location == _get_location_risk_factor(coordinates)
        location_risk == location.value
        forest_loss_detected ==
            IF location_risk > 5000 THEN rnd.choice ELSE FALSE
        forest_loss_area ==
            IF forest_loss_detected
            THEN LossArea(area_hectares, rnd.loss)
            ELSE 0
        change_percentage == ChangePercentage(forest_loss_area, area_hectares)
        \* the three confidence factors and their mean
        analysis_confidence ==
            ( (IF area_hectares > 1000 THEN 9000 ELSE 7000)
              + 9500
              + (9000 - (location_risk * 2) \div 10) ) \div 3
    IN  IF location.raised # "" THEN Raised(location.raised)
        ELSE Returned(
          [ area_analyzed |-> area_hectares,
            forest_loss_detected |-> forest_loss_detected,
            forest_loss_area |-> forest_loss_area,
            change_percentage |-> change_percentage,
            analysis_confidence |-> analysis_confidence,
            recommendations |->
                Recommendations(forest_loss_detected, area_hectares),
            detailed_metrics |->
              [ vegetation_indices |->
                  [ current_ndvi |-> rnd.current_ndvi,
                    historical_ndvi |-> rnd.historical_ndvi,
                    ndvi_change |-> rnd.ndvi_change,
                    evi |-> rnd.evi ],
                land_cover_classification |->
                  [ forest_percentage |->
                        IF ~forest_loss_detected
                        THEN rnd.forest_clear ELSE rnd.forest_loss,
                    agricultural_percentage |-> rnd.agricultural,
                    other_percentage |-> rnd.other,
                    water_percentage |-> rnd.water ],
                risk_assessment |->
                  [ deforestation_risk |->
                        IF location_risk > 7000 THEN "HIGH"
                        ELSE IF location_risk > 4000 THEN "MEDIUM" ELSE "LOW",
                    geographic_complexity |-> location_risk,
                    monitoring_priority |->
                        IF forest_loss_detected THEN "URGENT" ELSE "STANDARD" ] ] ])

-----------------------------------------------------------------------------
(* Inputs *)

\* places on the globe, one per risk region: <<lon, lat>>
Anchors ==
    { <<Deg(-60), 0>>,      \* Amazon basin
      <<Deg(20), 0>>,       \* Congo basin
      <<Deg(100), 0>>,      \* Sumatra
      <<0, Deg(50)>>,       \* Europe
      <<0, 0>> }            \* Gulf of Guinea

\* offsets from a place, in 1/1024 degree (about 109 m): plots from less
\* than one hectare to more than 100 hectares
Offsets == {0, 1, 14}

GridVertices(a) == {<<a[1] + dx, a[2] + dy>> : dx \in Offsets, dy \in Offsets}

\* every vertex list of up to MaxVertices vertices around one place
Polygons == UNION {SeqsUpTo(GridVertices(a), MaxVertices) : a \in Anchors}

\* those that start at the place itself
PlotPolygons == {c \in Polygons : c = <<>> \/ c[1] \in Anchors}

\* vertices on and next to the corners of the risk boxes
RiskVertices ==
    { <<Deg(20), 0>>, <<0, 0>>,
      <<Deg(-40), Deg(10)>>, <<Deg(-40) + 1, Deg(10)>>,
      <<Deg(-80), Deg(-10)>>, <<Deg(10), Deg(-10) - 1>>,
      <<Deg(35), Deg(10)>>, <<Deg(90), Deg(20)>>,
      <<Deg(50), Deg(70)>>, <<Deg(-10), Deg(35)>>,
      <<Deg(150) - 2, 0>>, <<Deg(150) + 1, 0>>, <<Deg(150) + 2, 0>> }

RiskPolygons == SeqsUpTo(RiskVertices, MaxVertices)

DateStrings ==
    { Str(<<"2", "0", "2", "3", "-", "0", "1", "-", "0", "1">>),
      Str(<<"2", "0", "2", "3", "-", "0", "1", "-", "1", "1">>),
      Str(<<"2", "0", "1", "9", "-", "0", "1", "-", "0", "1">>),
      Str(<<"2", "0", "2", "0", "-", "0", "2", "-", "2", "9">>),
      Str(<<"2", "0", "2", "3", "-", "0", "2", "-", "2", "9">>),
      Str(<<"2", "0", "2", "3", "-", "1", "3", "-", "0", "1">>),
      Str(<<"2", "0", "2", "3", "-", "1", "-", "1">>),
      Str(<<"2", "0", "2", "3", "-", "0", "1", "-", "0", "1", "T">>),
      Str(<<"2", "3", "-", "0", "1", "-", "0", "1">>),
      Str(<<"b", "a", "d">>),
      Str(<<>>),
      NoneValue }

\* image descriptors: the two the demo imagery returns (main.py asks for
\* the ranges starting 2023-01-01 and 2019-01-01), one with a malformed
\* date and no cloud_coverage, one with a date that is no string, and one
\* without the key 'date'
DemoCurrent ==
    [ url |-> "demo",
      date |-> Str(<<"2", "0", "2", "3", "-", "0", "1", "-", "0", "1">>),
      cloud_coverage |-> 500 ]

DemoHistorical ==
    [ url |-> "demo",
      date |-> Str(<<"2", "0", "1", "9", "-", "0", "1", "-", "0", "1">>),
      cloud_coverage |-> 500 ]

Images ==
    { DemoCurrent, DemoHistorical,
      [url |-> "x", date |-> Str(<<"b", "a", "d">>)],
      [url |-> "x", date |-> NoneValue, cloud_coverage |-> 2000],
      [url |-> "x", cloud_coverage |-> 0] }

\* the pairs <<historical_image, current_image>> given to analyze_change:
\* at least one of the two is what the demo imagery returns
ImagePairs ==
    {p \in Images \X Images : p[1] = DemoHistorical \/ p[2] = DemoCurrent}

\* the draws of one analyze_change
ChangeDraws ==
    [ loss : {1000, 4000},
      ndvi_loss : {2000, 4000},
      ndvi_stable : {-1000, 1000} ]

\* the draws of one full_analysis: the loss fraction over its range, the
\* eight metrics at the low or at the high end of their ranges
FullDraws ==
    { [ choice |-> ch, loss |-> l,
        current_ndvi |-> IF hi THEN 8000 ELSE 3000,
        historical_ndvi |-> IF hi THEN 9000 ELSE 4000,
        ndvi_change |-> IF hi THEN 1000 ELSE -3000,
        evi |-> IF hi THEN 7000 ELSE 2000,
        forest_clear |-> IF hi THEN 9000 ELSE 6000,
        forest_loss |-> IF hi THEN 7000 ELSE 4000,
        agricultural |-> IF hi THEN 3000 ELSE 500,
        other |-> IF hi THEN 1500 ELSE 500,
        water |-> IF hi THEN 500 ELSE 0 ]
      : ch \in BOOLEAN, l \in Uniform(0, 3000), hi \in BOOLEAN }

-----------------------------------------------------------------------------
(* State: one call at a time.  `call` names the operation and holds its    *)
(* arguments, `ret` its outcome.                                           *)

NoArg == <<>>

Call(op, coordinates, a, b) ==
    [op |-> op, coordinates |-> coordinates, a |-> a, b |-> b]

NoCall == Call("", <<>>, NoArg, NoArg)

NoRet == Returned(0)

Init ==
    /\ pc = "idle"
    /\ call = NoCall
    /\ ret = NoRet
    /\ redis_client \in {"connected", "None"}
    /\ api \in {"connected", "None"}
    /\ store = <<>>
    /\ clock = 0
    /\ trace = <<>>

Invoke(c, r) ==
    /\ pc = "idle"
    /\ pc' = "done"
    /\ call' = c
    /\ ret' = r
    /\ UNCHANGED <<redis_client, api, store, clock, trace>>

CalculateArea ==
    /\ pc = "idle"
    /\ \E coordinates \in Polygons :
           Invoke(Call("_calculate_area", coordinates, NoArg, NoArg),
                  Returned(_calculate_area(coordinates)))

GetLocationRiskFactor ==
    /\ pc = "idle"
    /\ \E coordinates \in RiskPolygons \cup PlotPolygons :
           Invoke(Call("_get_location_risk_factor", coordinates, NoArg, NoArg),
                  _get_location_risk_factor(coordinates))

CalculateTimeSpan ==
    /\ pc = "idle"
    /\ \E start_date \in DateStrings, end_date \in DateStrings :
           Invoke(Call("_calculate_time_span", <<>>, start_date, end_date),
                  Returned(_calculate_time_span(start_date, end_date)))

AnalyzeChange ==
    /\ pc = "idle"
    /\ \E coordinates \in PlotPolygons, images \in ImagePairs, rnd \in ChangeDraws :
           Invoke(Call("analyze_change", coordinates, images[1], images[2]),
                  analyze_change(images[1], images[2], coordinates, rnd))

FullAnalysis ==
    /\ pc = "idle"
    /\ \E coordinates \in PlotPolygons, rnd \in FullDraws :
           Invoke(Call("full_analysis", coordinates, NoArg, NoArg),
                  full_analysis(coordinates, rnd))

\* the caller takes the outcome; the next call can start
Return ==
    /\ pc = "done"
    /\ pc' = "idle"
    /\ call' = NoCall
    /\ ret' = NoRet
    /\ UNCHANGED <<redis_client, api, store, clock, trace>>

NextCore ==
    \/ CalculateArea
    \/ GetLocationRiskFactor
    \/ CalculateTimeSpan
    \/ AnalyzeChange
    \/ FullAnalysis
    \/ Return

\* the analyzer alone: no cache service is constructed
InitCore == Init /\ redis_client = "None" /\ api = "None"

SpecCore == InitCore /\ [][NextCore]_vars

-----------------------------------------------------------------------------
(* CacheService (services/cache_service.py)                                *)
(*                                                                         *)
(* The Redis server is the function `store`.  A command sent to it can     *)
(* raise (connection lost, timeout): `fails` says whether this one does.   *)
(* A method of the service yields, like every call here, Returned(v) or    *)
(* Raised(exc), together with the store it leaves.                         *)

\* json.dumps and json.loads of a response: a dict of lists, strings,
\* numbers and booleans, which the round trip gives back unchanged
json_dumps(value) == [json |-> value]
json_loads(text) == text.json

\* the store without one key
Without(st, key) == [k \in (DOMAIN st) \ {key} |-> st[k]]

\* the store with one key set
With(st, key, text) ==
    [k \in (DOMAIN st) \cup {key} |-> IF k = key THEN text ELSE st[k]]

\* faulty variant: the stored value is never given back
cache_get_always_miss(client, st, key, fails) == Returned(NoneValue)

\* faulty variant: an error of the Redis command is not caught
cache_get_unguarded(client, st, key, fails) ==
    IF client = "None" THEN Returned(NoneValue)
    ELSE IF fails THEN Raised("RedisError")
    ELSE IF key \in DOMAIN st THEN Returned(json_loads(st[key]))
    ELSE Returned(NoneValue)

\* CacheService.get
cache_get(client, st, key, fails) ==
    IF client = "None" THEN Returned(NoneValue)
    ELSE IF fails THEN Returned(NoneValue)
    ELSE IF key \in DOMAIN st THEN Returned(json_loads(st[key]))
    ELSE Returned(NoneValue)

\* CacheService.set: the outcome and the store it leaves
cache_set(client, st, key, value, fails) ==
    IF client = "None" THEN [outcome |-> Returned(NoneValue), store |-> st]
    ELSE IF fails THEN [outcome |-> Returned(NoneValue), store |-> st]
    ELSE [outcome |-> Returned(NoneValue),
          store |-> With(st, key, json_dumps(value))]

\* CacheService.delete
cache_delete(client, st, key, fails) ==
    IF client = "None" THEN [outcome |-> Returned(NoneValue), store |-> st]
    ELSE IF fails THEN [outcome |-> Returned(NoneValue), store |-> st]
    ELSE [outcome |-> Returned(NoneValue), store |-> Without(st, key)]

\* how a cache call went, for the trace
CacheOutcome(client, fails, hit) ==
    IF client = "None" THEN "no client"
    ELSE IF fails THEN "error caught"
    ELSE IF hit THEN "hit" ELSE "done"

-----------------------------------------------------------------------------
(* CopernicusService (services/copernicus_service.py)                      *)

\* the two date ranges main.py asks for
CurrentRange ==
    << Str(<<"2", "0", "2", "3", "-", "0", "1", "-", "0", "1">>),
       Str(<<"2", "0", "2", "4", "-", "1", "2", "-", "3", "1">>) >>

HistoricalRange ==
    << Str(<<"2", "0", "1", "9", "-", "0", "1", "-", "0", "1">>),
       Str(<<"2", "0", "2", "0", "-", "1", "2", "-", "3", "1">>) >>

\* _get_demo_image: the centre of the vertices goes into the url
_get_demo_image(coordinates, date_range) ==
    IF Len(coordinates) = 0 THEN Raised("ZeroDivisionError")
    ELSE IF Malformed(coordinates) THEN Raised("IndexError")
    ELSE Returned(
           [ url |-> <<"staticmap", Centroid(coordinates)>>,
             date |-> date_range[1],
             cloud_coverage |-> 500 ])

\* the best product of a query: one acquisition in the range, named by
\* its day (strftime('%Y-%m-%d')) and its cloud coverage
ProductOf(date_range) ==
    IF date_range = CurrentRange
    THEN [ url |-> <<"scihub", "current">>,
           date |-> Str(<<"2", "0", "2", "3", "-", "0", "1", "-", "1", "1">>),
           cloud_coverage |-> 1200 ]
    ELSE [ url |-> <<"scihub", "historical">>,
           date |-> Str(<<"2", "0", "2", "0", "-", "0", "2", "-", "2", "9">>),
           cloud_coverage |-> 0 ]

\* what the query of the hub does: it raises, finds nothing, or finds
QueryOutcomes == {"error", "empty", "product"}

\* get_satellite_image: the demo image without an api, when the query
\* raises and when it finds no product
get_satellite_image(hub, coordinates, date_range, query) ==
    IF hub = "None" THEN _get_demo_image(coordinates, date_range)
    ELSE IF query = "product" THEN Returned(ProductOf(date_range))
    ELSE _get_demo_image(coordinates, date_range)

-----------------------------------------------------------------------------
(* NotificationService.send_deforestation_alert: it sends a mail to the    *)
(* recipients, and either returns or raises                                *)

send_deforestation_alert(analysis_result, recipients, fails) ==
    IF fails THEN Raised("NotificationError") ELSE Returned(NoneValue)

-----------------------------------------------------------------------------
(* The handlers of main.py                                                 *)
(*                                                                         *)
(* A geojson is a dict: a function from keys to values.  A handler yields  *)
(* the HTTP response, the events of its collaborators in order, and the    *)
(* store it leaves.  `env` holds what the collaborators do during the      *)
(* request and the random draws of the analysis.                           *)

Response(status, body) == [status |-> status, body |-> body]

\* raise HTTPException(status_code=500, detail=f"...: {str(e)}")
InternalError(exc) == Response(500, exc)

Event(ev, outcome) == [ev |-> ev, outcome |-> outcome]

Handled(response, events, st) ==
    [response |-> response, events |-> events, store |-> st]

\* f"eudr_check_{hash(str(coordinates))}": one key per vertex list
cache_key(coordinates) == <<"eudr_check", coordinates>>

\* faulty variant: a failed analysis is answered with what is known so far
ConcludeCheck_partial(coordinates, key, client, st, now, env, events, current_image, historical_image, analysis_result) ==
    Handled(Response(200, [coordinates |-> coordinates,
                           current_image_url |-> current_image.url,
                           historical_image_url |-> historical_image.url]),
            events, st)

\* POST /api/v1/eudr/check, from its last step to its first.
\* The response, the cache write and the alert (after the analysis).
ConcludeCheck(coordinates, key, client, st, now, env, events, current_image, historical_image, analysis_result) ==
    IF analysis_result.raised # ""
    THEN Handled(InternalError(analysis_result.raised), events, st)
    ELSE
    LET result == analysis_result.value
        response_data ==
          [ coordinates |-> coordinates,
            is_eudr_compliant |-> (result.deforestation_detected = FALSE),
            deforestation_detected |-> result.deforestation_detected,
            analysis_date |-> now,
            confidence_score |-> result.confidence_score,
            current_image_url |-> current_image.url,
            historical_image_url |-> historical_image.url,
            report |-> result.detailed_report ]
        written == cache_set(client, st, key, response_data, env.set_fails)
        cached ==
            Append(events,
                   Event("cache.set", CacheOutcome(client, env.set_fails, FALSE)))
        alert ==
            send_deforestation_alert(result, <<"ALERT_EMAIL">>,
                                     env.alert_fails)
        notified ==
            Append(cached,
                   Event("notifier",
                         IF env.alert_fails THEN "raised" ELSE "sent"))
    IN  IF written.outcome.raised # ""
        THEN Handled(InternalError(written.outcome.raised), cached, st)
        ELSE IF ~result.deforestation_detected
        THEN Handled(Response(200, response_data), cached, written.store)
        ELSE IF alert.raised # ""
        THEN Handled(InternalError(alert.raised), notified, written.store)
        ELSE Handled(Response(200, response_data), notified, written.store)

\* The analysis of the two images (after their retrieval).
AnalyseCheck(coordinates, key, client, st, now, env, get_event, current_image, historical_image) ==
    LET images == <<get_event, Event("imagery", "current"),
                    Event("imagery", "historical")>>
    IN  IF current_image.raised # ""
        THEN Handled(InternalError(current_image.raised),
                     SubSeq(images, 1, 2), st)
        ELSE IF historical_image.raised # ""
        THEN Handled(InternalError(historical_image.raised), images, st)
        ELSE ConcludeCheck(coordinates, key, client, st, now, env,
                           Append(images, Event("analysis", "analyze_change")),
                           current_image.value, historical_image.value,
                           analyze_change(historical_image.value,
                                          current_image.value,
                                          coordinates, env.rnd))

\* The cached response, the validation, the retrieval of the two images
\* (after the cache lookup).
FetchCheck(coordinates, key, client, hub, st, now, env, cached_result) ==
    LET get_event ==
            Event("cache.get",
                  CacheOutcome(client, env.get_fails, key \in DOMAIN st))
    IN  IF cached_result.raised # ""
        THEN Handled(InternalError(cached_result.raised), <<get_event>>, st)
        ELSE IF cached_result.value # NoneValue
        THEN Handled(Response(200, cached_result.value), <<get_event>>, st)
        ELSE IF coordinates = <<>>
        THEN Handled(InternalError("400: Coordonnees GeoJSON invalides"),
                     <<get_event>>, st)
        ELSE AnalyseCheck(coordinates, key, client, st, now, env, get_event,
                          get_satellite_image(hub, coordinates, CurrentRange,
                                              env.current),
                          get_satellite_image(hub, coordinates, HistoricalRange,
                                              env.historical))

\* The handler: the cache key and the lookup, then the steps above.
\* Every exception ends in the HTTP 500 of its except clause.
check_eudr_compliance(request, client, hub, st, now, env) ==
    IF "coordinates" \notin DOMAIN request.geojson
    THEN Handled(InternalError("KeyError"), <<>>, st)
    ELSE FetchCheck(request.geojson["coordinates"],
                    cache_key(request.geojson["coordinates"]),
                    client, hub, st, now, env,
                    cache_get(client, st,
                              cache_key(request.geojson["coordinates"]),
                              env.get_fails))

\* POST /api/v1/analyze/deforestation
analyze_deforestation(request, st, rnd) ==
    LET geojson == request.geojson
    IN  IF "coordinates" \notin DOMAIN geojson
        THEN Handled(InternalError("KeyError"), <<>>, st)
        ELSE LET result == full_analysis(geojson["coordinates"], rnd)
                 events == <<Event("analysis", "full_analysis")>>
             IN  IF result.raised # ""
                 THEN Handled(InternalError(result.raised), events, st)
                 ELSE Handled(Response(200, result.value), events, st)

-----------------------------------------------------------------------------
(* Requests *)

\* the vertex lists of the requests: none, one vertex in Europe, one
\* vertex that has a longitude only, a plot of more than 100 hectares in
\* the Amazon basin
RequestPolygons ==
    { <<>>,
      << <<0, Deg(50)>> >>,
      << <<Deg(20)>> >>,
      << <<Deg(-60), 0>>, <<Deg(-60) + 14, 0>>, <<Deg(-60), 14>> >> }

\* the request bodies: a geojson with coordinates, one without the key,
\* and the empty geojson
Requests ==
    {[geojson |-> [coordinates |-> c]] : c \in RequestPolygons}
    \cup {[geojson |-> [type |-> "Polygon"]], [geojson |-> <<>>]}

CacheKeys == {cache_key(c) : c \in RequestPolygons}

\* the draws of the analysis of one check
HandlerDraws == {d \in ChangeDraws : d.loss = 1000 /\ d.ndvi_loss = 2000}

\* what the collaborators do during one check
Envs ==
    [ get_fails : BOOLEAN,
      set_fails : BOOLEAN,
      current : QueryOutcomes,
      historical : QueryOutcomes,
      alert_fails : BOOLEAN,
      rnd : HandlerDraws ]

-----------------------------------------------------------------------------
(* The API: requests are served one at a time (the handlers never suspend  *)
(* between their first and last statement), entries of the store expire.   *)

Serve(c, handled) ==
    /\ pc' = "done"
    /\ call' = c
    /\ ret' = Returned(handled.response)
    /\ store' = handled.store
    /\ trace' = handled.events
    /\ clock' = clock + 1
    /\ UNCHANGED <<redis_client, api>>

CheckEudrCompliance ==
    /\ pc = "idle"
    /\ clock < MaxRequests
    /\ \E request \in Requests, env \in Envs :
           Serve(Call("check_eudr_compliance", <<>>, request, env),
                 check_eudr_compliance(request, redis_client, api, store,
                                       clock, env))

AnalyzeDeforestation ==
    /\ pc = "idle"
    /\ clock < MaxRequests
    /\ \E request \in Requests, rnd \in FullDraws :
           Serve(Call("analyze_deforestation", <<>>, request, rnd),
                 analyze_deforestation(request, store, rnd))

\* a direct call of CacheService.get
CacheGet ==
    /\ pc = "idle"
    /\ \E key \in CacheKeys, fails \in BOOLEAN :
           /\ pc' = "done"
           /\ call' = Call("cache.get", <<>>, key, fails)
           /\ ret' = cache_get(redis_client, store, key, fails)
           /\ trace' = <<Event("cache.get",
                               CacheOutcome(redis_client, fails,
                                            key \in DOMAIN store))>>
           /\ UNCHANGED <<redis_client, api, store, clock>>

\* a direct call of CacheService.delete
CacheDelete ==
    /\ pc = "idle"
    /\ \E key \in CacheKeys, fails \in BOOLEAN :
           LET deleted == cache_delete(redis_client, store, key, fails)
           IN  /\ pc' = "done"
               /\ call' = Call("cache.delete", <<>>, key, fails)
               /\ ret' = deleted.outcome
               /\ store' = deleted.store
               /\ trace' = <<Event("cache.delete",
                                   CacheOutcome(redis_client, fails, FALSE))>>
               /\ UNCHANGED <<redis_client, api, clock>>

\* setex(key, ttl, ...): the entry goes away when its time is over
Expire ==
    /\ pc = "idle"
    /\ \E key \in DOMAIN store :
           /\ store' = Without(store, key)
           /\ UNCHANGED <<pc, call, ret, redis_client, api, clock, trace>>

Next ==
    \/ CheckEudrCompliance
    \/ AnalyzeDeforestation
    \/ CacheGet
    \/ CacheDelete
    \/ Expire
    \/ Return

Spec == Init /\ [][Next]_vars

\* analyze_change called directly: it reads nothing of the services, so
\* these calls are taken before the first request, without cache and hub
AnalyzeChangeAlone ==
    /\ clock = 0
    /\ redis_client = "None"
    /\ api = "None"
    /\ AnalyzeChange

\* the analysis of a change, called directly and through the check
NextChange ==
    \/ AnalyzeChangeAlone
    \/ CheckEudrCompliance
    \/ Expire
    \/ Return

SpecChange == Init /\ [][NextChange]_vars

-----------------------------------------------------------------------------
(* Properties of the analyzer, checked under SpecCore *)

Done(op) == pc = "done" /\ call.op = op

Analyses == {"analyze_change", "full_analysis"}

\* C1: _calculate_area returns 0 for a vertex list of fewer than 3
\* vertices, at least 1.0 hectare (100 hundredths) for every list of 3 or
\* more vertices, however small or degenerate the ring, and never raises.
C1_AreaFloor ==
    Done("_calculate_area") =>
        /\ ret.raised = ""
        /\ Len(call.coordinates) < 3 => ret.value = 0
        /\ Len(call.coordinates) >= 3 => ret.value >= 100

\* a ring of three vertices that encloses nothing: the floor is what
\* makes its area 1.0
C1_Witness ==
    /\ Done("_calculate_area")
    /\ Len(call.coordinates) = 3
    /\ ShoelaceSum(call.coordinates, 1) = 0
    /\ ret.value = 100

\* C2 as stated: every result of analyze_change and of full_analysis has
\* area_analyzed of at least 1.0 hectare.
C2_AreaAnalyzedAlways ==
    (pc = "done" /\ call.op \in Analyses /\ ret.raised = "") =>
        ret.value.area_analyzed >= 100

\* C2, amended: area_analyzed is at least 1.0 hectare when the polygon has
\* 3 or more vertices, and is 0 when it has 1 or 2 vertices.
C2_AreaAnalyzed ==
    (pc = "done" /\ call.op \in Analyses /\ ret.raised = "") =>
        IF Len(call.coordinates) >= 3
        THEN ret.value.area_analyzed >= 100
        ELSE ret.value.area_analyzed = 0

\* an analysis of a two-vertex polygon has returned, with the area 0
C2_Witness ==
    /\ Done("analyze_change")
    /\ ret.raised = ""
    /\ Len(call.coordinates) = 2
    /\ ret.value.area_analyzed = 0

\* C3: confidence_score of analyze_change is within [0.1, 0.9] and
\* analysis_confidence of full_analysis is within [0, 1].
C3_ConfidenceRanges ==
    /\ (Done("analyze_change") /\ ret.raised = "") =>
           /\ ret.value.confidence_score >= 1000
           /\ ret.value.confidence_score <= 9000
    /\ (Done("full_analysis") /\ ret.raised = "") =>
           /\ ret.value.analysis_confidence >= 0
           /\ ret.value.analysis_confidence <= 10000

\* a small plot in the low-risk box: 0.3 * (0.01 + 0.2) / 2 is below 0.1,
\* and the score is 0.1
C3_Witness ==
    /\ Done("analyze_change")
    /\ ret.raised = ""
    /\ ret.value.detailed_report.risk_factors.geographic_risk = 2000
    /\ ret.value.detailed_report.risk_factors.area_size < 1000
    /\ ret.value.confidence_score = 1000

\* the loss flag of a result
LossFlag ==
    IF call.op = "analyze_change"
    THEN ret.value.deforestation_detected
    ELSE ret.value.forest_loss_detected

\* C4: in every result 0 <= forest_loss_area <= area_analyzed and
\* 0 <= change_percentage <= 40; change_percentage is 0 when area_analyzed
\* is 0; forest_loss_area is 0 when no loss is detected.
C4_LossWithinArea ==
    (pc = "done" /\ call.op \in Analyses /\ ret.raised = "") =>
        /\ 0 <= ret.value.forest_loss_area
        /\ ret.value.forest_loss_area <= ret.value.area_analyzed
        /\ 0 <= ret.value.change_percentage
        /\ ret.value.change_percentage <= 4000
        /\ ret.value.area_analyzed = 0 => ret.value.change_percentage = 0
        /\ ~LossFlag => ret.value.forest_loss_area = 0

\* a loss of the largest fraction full_analysis draws, 30 percent
C4_Witness ==
    /\ Done("full_analysis")
    /\ ret.raised = ""
    /\ ret.value.forest_loss_detected
    /\ ret.value.forest_loss_area > 0
    /\ ret.value.change_percentage >= 2900

\* the table of risk regions, in the order of the lookup: bounds in whole
\* degrees, both ends included
RiskRegions ==
    << [lat |-> <<-10, 10>>, lon |-> <<-80, -40>>, factor |-> 8000],
       [lat |-> <<-10, 10>>, lon |-> <<10, 35>>, factor |-> 7000],
       [lat |-> <<-10, 20>>, lon |-> <<90, 150>>, factor |-> 6000],
       [lat |-> <<35, 70>>, lon |-> <<-10, 50>>, factor |-> 2000] >>

\* the factor of the first region that holds the centre, 0.4 when none does
FirstMatch(center) ==
    LET holds(r) ==
            /\ FloatGe(center[2], Deg(r.lat[1]))
            /\ FloatLe(center[2], Deg(r.lat[2]))
            /\ FloatGe(center[1], Deg(r.lon[1]))
            /\ FloatLe(center[1], Deg(r.lon[2]))
        matches == {i \in DOMAIN RiskRegions : holds(RiskRegions[i])}
    IN  IF matches = {} THEN 4000
        ELSE RiskRegions[CHOOSE i \in matches : \A j \in matches : i <= j].factor

\* the orders of the vertices of a list
Reorderings(coordinates) ==
    { [i \in 1..Len(coordinates) |-> coordinates[f[i]]] :
          f \in Permutations(1..Len(coordinates)) }

\* the lookup, its range and the two named centres
C5_Lookup ==
    (Done("_get_location_risk_factor") /\ ret.raised = "") =>
        /\ ret.value = FirstMatch(Centroid(call.coordinates))
        /\ ret.value >= 2000
        /\ ret.value <= 8000
        /\ call.coordinates = << <<Deg(20), 0>> >> => ret.value = 7000
        /\ call.coordinates = << <<0, 0>> >> => ret.value = 4000

C6_RiskFactorTotal ==
    /\ Done("_get_location_risk_factor") => ret.raised = ""
    /\ (pc = "done" /\ call.op \in Analyses /\ Len(call.coordinates) < 3) =>
           ret.raised # "ZeroDivisionError"

\* C7: the recommendations are the four loss strings when loss is detected
\* and the three no-loss strings otherwise; the high-frequency entry is
\* present exactly when area_analyzed is above 100 hectares, and is last.
C7_Recommendations ==
    (Done("full_analysis") /\ ret.raised = "") =>
        LET r == ret.value.recommendations
            base == IF ret.value.forest_loss_detected THEN 4 ELSE 3
            large == ret.value.area_analyzed > 10000
        IN  /\ Len(r) = base + (IF large THEN 1 ELSE 0)
            /\ SubSeq(r, 1, base) =
                   (IF ret.value.forest_loss_detected THEN RecLoss ELSE RecClear)
            /\ large <=> (\E i \in DOMAIN r : r[i] = RecLargeArea)
            /\ large => r[Len(r)] = RecLargeArea

\* loss on a plot of more than 100 hectares: five entries
C7_Witness ==
    /\ Done("full_analysis")
    /\ ret.raised = ""
    /\ ret.value.forest_loss_detected
    /\ ret.value.area_analyzed > 10000
    /\ Len(ret.value.recommendations) = 5

\* a string of the strict form YYYY-MM-DD that names a day of the calendar
IsIsoDate(date) ==
    /\ date.type = "str"
    /\ Len(date.chars) = 10
    /\ \A i \in {1, 2, 3, 4, 6, 7, 9, 10} : date.chars[i] \in Digits
    /\ date.chars[5] = "-" /\ date.chars[8] = "-"
    /\ LET y == FieldValue(SubSeq(date.chars, 1, 4))
           m == FieldValue(SubSeq(date.chars, 6, 7))
           d == FieldValue(SubSeq(date.chars, 9, 10))
       IN  y >= 1 /\ m \in 1..12 /\ d >= 1 /\ d <= DaysInMonth(y, m)

DayNumber(date) ==
    Ordinal(FieldValue(SubSeq(date.chars, 1, 4)),
            FieldValue(SubSeq(date.chars, 6, 7)),
            FieldValue(SubSeq(date.chars, 9, 10)))

Date20230101 == Str(<<"2", "0", "2", "3", "-", "0", "1", "-", "0", "1">>)
Date20230111 == Str(<<"2", "0", "2", "3", "-", "0", "1", "-", "1", "1">>)

\* C8: _calculate_time_span returns the days from start to end when both
\* are dates YYYY-MM-DD (10 from 2023-01-01 to 2023-01-11, -10 the other
\* way round) and 365 when either does not parse; it never raises, and a
\* malformed date in an image descriptor does not make analyze_change fail.
C8_TimeSpan ==
    /\ Done("_calculate_time_span") =>
           /\ ret.raised = ""
           /\ (IsIsoDate(call.a) /\ IsIsoDate(call.b)) =>
                  ret.value = DayNumber(call.b) - DayNumber(call.a)
           /\ (strptime(call.a).raised # "" \/ strptime(call.b).raised # "") =>
                  ret.value = 365
           /\ (call.a = Date20230101 /\ call.b = Date20230111) => ret.value = 10
           /\ (call.a = Date20230111 /\ call.b = Date20230101) => ret.value = -10
    /\ ( /\ Done("analyze_change")
         /\ "date" \in DOMAIN call.a
         /\ "date" \in DOMAIN call.b
         /\ call.coordinates # <<>> ) =>
           /\ ret.raised = ""
           /\ (~IsIsoDate(call.a["date"]) \/ ~IsIsoDate(call.b["date"])) =>
                  ret.value.detailed_report.temporal_analysis.time_span_days = 365

\* analyze_change has returned for an image whose date is no date
C8_Witness ==
    /\ Done("analyze_change")
    /\ "date" \in DOMAIN call.a
    /\ call.a["date"] = Str(<<"b", "a", "d">>)
    /\ ret.raised = ""
    /\ ret.value.detailed_report.temporal_analysis.time_span_days = 365

-----------------------------------------------------------------------------
(* Properties of the API, checked under Spec *)

\* the events of the collaborators other than the cache
NonCache(events) ==
    SelectSeq(events, LAMBDA e : e.ev \notin {"cache.get", "cache.set"})

\* a cache call of the last request found no client or had its error caught
CacheFailed ==
    \E i \in DOMAIN trace : trace[i].outcome \in {"no client", "error caught"}

\* the same request, at the same time and with the same collaborators,
\* served with a working cache that holds nothing
ServedOnMiss ==
    check_eudr_compliance(call.a, "connected", api, <<>>, clock - 1,
                          [call.b EXCEPT !.get_fails = FALSE,
                                         !.set_fails = FALSE])

\* C10: without a cache client, or when the Redis command raises,
\* CacheService.get returns None and set and delete return without
\* raising; check_eudr_compliance then does what it does on a cache miss
\* (imagery, analysis, response) and returns the same response.
C10_CacheFailureIsMiss ==
    /\ Done("cache.get") =>
          /\ ret.raised = ""
          /\ (redis_client = "None" \/ call.b) => ret.value = NoneValue
    /\ Done("cache.delete") => ret = Returned(NoneValue)
    /\ (Done("check_eudr_compliance") /\ CacheFailed) =>
          /\ ret.value = ServedOnMiss.response
          /\ NonCache(trace) = NonCache(ServedOnMiss.events)

\* a check whose cache read and cache write both raised inside the
\* service, answered 200 after imagery and analysis
C10_Witness ==
    /\ Done("check_eudr_compliance")
    /\ redis_client = "connected"
    /\ call.b.get_fails
    /\ call.b.set_fails
    /\ ret.value.status = 200
    /\ Len(NonCache(trace)) = 3

\* a request body without usable coordinates: the geojson is empty, has
\* no key 'coordinates', or has an empty vertex list
InvalidGeojson(request) ==
    \/ "coordinates" \notin DOMAIN request.geojson
    \/ request.geojson["coordinates"] = <<>>

\* C11 as stated: a check whose geojson is empty, has no 'coordinates' or
\* has empty coordinates is answered with HTTP 400, not 500, before any
\* imagery request, analysis, cache write or notification.
C11_InvalidGeojsonIs400 ==
    (Done("check_eudr_compliance") /\ InvalidGeojson(call.a)) =>
        /\ ret.value.status = 400
        /\ \A i \in DOMAIN trace : trace[i].ev = "cache.get"

\* the analysis the last check ran on the images it retrieved
AnalysisOfCheck ==
    LET coordinates == call.a.geojson["coordinates"]
    IN  analyze_change(
            get_satellite_image(api, coordinates, HistoricalRange,
                                call.b.historical).value,
            get_satellite_image(api, coordinates, CurrentRange,
                                call.b.current).value,
            coordinates, call.b.rnd)

Ran(ev) == \E i \in DOMAIN trace : trace[i].ev = ev

\* the last request was one whose analysis ran and raised
AnalysisFailed ==
    \/ /\ Done("check_eudr_compliance")
       /\ Ran("analysis")
       /\ AnalysisOfCheck.raised # ""
    \/ /\ Done("analyze_deforestation")
       /\ Ran("analysis")
       /\ full_analysis(call.a.geojson["coordinates"], call.b).raised # ""

\* the exception of that analysis
AnalysisError ==
    IF call.op = "check_eudr_compliance"
    THEN AnalysisOfCheck
    ELSE full_analysis(call.a.geojson["coordinates"], call.b)

\* a request that fails leaves the store as it was
FailedRequestKeepsStore ==
    ( /\ pc = "idle"
      /\ pc' = "done"
      /\ call'.op \in {"check_eudr_compliance", "analyze_deforestation"}
      /\ ret'.value.status = 500 ) => store' = store

\* C12: when analyze_change or full_analysis raises, the analyzer returns
\* nothing but the exception, the endpoint answers HTTP 500 with no data of
\* the analysis, the request writes nothing to the cache and does not
\* invoke the notifier, and the store is as it was before the request.
C12_AnalysisFailureSurfaced ==
    /\ [](AnalysisFailed =>
            /\ AnalysisError.value = 0
            /\ ret = Returned(InternalError(AnalysisError.raised))
            /\ ~Ran("cache.set")
            /\ ~Ran("notifier"))
    /\ [][FailedRequestKeepsStore]_vars

\* a check of a malformed vertex list whose analysis raised after both
\* images were found, while the store holds the response of an earlier check
C12_Witness ==
    /\ Done("check_eudr_compliance")
    /\ AnalysisFailed
    /\ ret.value.status = 500
    /\ Len(trace) = 4
    /\ DOMAIN store # {}

\* the last check computed its response (it did not answer from the cache)
FreshResponse ==
    /\ Done("check_eudr_compliance")
    /\ ret.value.status = 200
    /\ Ran("analysis")

\* C13: analyze_change never reports deforestation: the probability
\* 0.3 * (area_factor + location_factor) / 2 is at most 0.27, so
\* deforestation_detected is false, forest_loss_area and change_percentage
\* are 0 in every result, every freshly computed check response is
\* compliant (is_eudr_compliant being the negation of
\* deforestation_detected), and the notifier is never invoked.
C13_NeverDetected ==
    /\ (Done("analyze_change") /\ ret.raised = "") =>
          LET factors == ret.value.detailed_report.risk_factors
          IN  /\ factors.area_size <= 10000
              /\ factors.geographic_risk <= 8000
              /\ (3 * (factors.area_size + factors.geographic_risk)) \div 20 <= 2700
              /\ ret.value.confidence_score <= 2700
              /\ ret.value.deforestation_detected = FALSE
              /\ ret.value.forest_loss_area = 0
              /\ ret.value.change_percentage = 0
    /\ (Done("check_eudr_compliance") /\ ret.value.status = 200) =>
          ret.value.body.is_eudr_compliant = ~ret.value.body.deforestation_detected
    /\ FreshResponse =>
          /\ ret.value.body.is_eudr_compliant = TRUE
          /\ ret.value.body.confidence_score <= 2700
    /\ ~Ran("notifier")

\* the largest probability there is: a plot of more than 100 hectares in
\* the highest-risk box, checked afresh and found compliant at 0.27
C13_Witness ==
    /\ FreshResponse
    /\ ret.value.body.report.risk_factors.area_size = 10000
    /\ ret.value.body.report.risk_factors.geographic_risk = 8000
    /\ ret.value.body.confidence_score = 2700
    /\ ret.value.body.is_eudr_compliant

\* the fields of a complete response
ResponseFields ==
    { "coordinates", "is_eudr_compliant", "deforestation_detected",
      "analysis_date", "confidence_score", "current_image_url",
      "historical_image_url", "report" }

\* every entry of the store is a complete response, under the key of its
\* coordinates, computed by an earlier request
StoreHoldsResponses ==
    \A key \in DOMAIN store :
        LET stored == json_loads(store[key])
        IN  /\ DOMAIN stored = ResponseFields
            /\ key = cache_key(stored.coordinates)
            /\ stored.analysis_date < clock

\* a step that serves a check
ChecksRequest ==
    /\ pc = "idle"
    /\ pc' = "done"
    /\ call'.op = "check_eudr_compliance"
    /\ "coordinates" \in DOMAIN call'.a.geojson

KeyOfRequest == cache_key(call'.a.geojson["coordinates"])

\* the check finds an entry: the client is there, the read does not fail
FindsEntry ==
    /\ redis_client = "connected"
    /\ ~call'.b.get_fails
    /\ KeyOfRequest \in DOMAIN store

\* a check that finds an entry answers with it and does nothing else
HitShortCircuits ==
    (ChecksRequest /\ FindsEntry) =>
        /\ ret' = Returned(Response(200, json_loads(store[KeyOfRequest])))
        /\ Len(trace') = 1
        /\ trace'[1].ev = "cache.get"
        /\ store' = store

\* a check that changes the store missed, retrieved both images, ran the
\* analysis, then stored the response it returns, before any notification
WriteFollowsMiss ==
    (ChecksRequest /\ store' # store) =>
        /\ ~FindsEntry
        /\ ret'.value.status = 200
        /\ store' = With(store, KeyOfRequest, json_dumps(ret'.value.body))
        /\ Len(trace') >= 5
        /\ <<trace'[1].ev, trace'[2].ev, trace'[3].ev, trace'[4].ev, trace'[5].ev>>
               = <<"cache.get", "imagery", "imagery", "analysis", "cache.set">>

\* C14: a cache hit short-circuits the check.  A later check for the same
\* coordinates that finds the stored entry returns exactly the stored
\* response (same analysis_date, confidence_score and report) without
\* imagery request, analysis, cache write or notification; the store is
\* written only with the complete response of a check that missed, after
\* imagery and analysis succeeded and before any notification.
C14_CacheHitShortCircuits ==
    /\ []StoreHoldsResponses
    /\ [][HitShortCircuits /\ WriteFollowsMiss]_vars

\* the second check of a plot, answered at time 1 with the response that
\* the first check computed at time 0
C14_Witness ==
    /\ Done("check_eudr_compliance")
    /\ clock = 2
    /\ Len(trace) = 1
    /\ ret.value.status = 200
    /\ ret.value.body.analysis_date = 0
    /\ store[cache_key(call.a.geojson["coordinates"])] = json_dumps(ret.value.body)

=============================================================================
